---- MODULE Spec2Model ----
(***************************************************************************)
(* Monte-Carlo Tree Search of rl_agents/agents/tree_search/mcts.py:        *)
(* the Node statistics tree, the MCTS engine (run, plan, tree reuse),     *)
(* and the MCTSAgent that reuses the tree between decisions.               *)
(*                                                                         *)
(* Nodes are Python objects: they live in a heap (id -> record) with an    *)
(* explicit parent reference and an insertion-ordered children dict.       *)
(* Real numbers (value, prior) are exact rationals <<num, den>>, den > 0,  *)
(* in lowest terms.                                                        *)
(***************************************************************************)
EXTENDS Integers, Sequences, FiniteSets, TLC

VARIABLES
    heap,                 \* the Node objects: id -> [parent, prior, children, count, value]
    root,                 \* MCTS.root
    envs,                 \* the environment objects: handle -> [t, model, viewer]
    previous_action,      \* MCTSAgent.previous_action
    iterations,           \* MCTS.iterations
    assume_vehicle_type,  \* MCTSAgent.assume_vehicle_type
    pc,                   \* "idle", or "planning" inside MCTSAgent.plan
    iter,                 \* the iterations of MCTS.plan completed in this call
    upd,                  \* history: the updates each node received
    call,                 \* history: the last call, its arguments and result
    ops,                  \* history: the number of calls made
    agents,               \* RobustMCTSAgent.agents: the sub-agents, in order
    joint_state           \* JointEnv.joint_state: the models' environments, in order

vars == <<heap, root, envs, previous_action, iterations, assume_vehicle_type,
          pc, iter, upd, call, ops, agents, joint_state>>

agent ==
    <<envs, previous_action, iterations, assume_vehicle_type, pc, iter, agents,
      joint_state>>

(***************************************************************************)
(* Bounds of the model.                                                    *)
(***************************************************************************)
NumActions == 2
MaxNodes == 4
MaxReward == 1
MaxOps == 3
MaxDepth == 2
MaxIterations == 2
MaxTreeOps == 3
MaxRuns == 4
MaxModels == 2
MaxPlanRuns == 4
MaxRatio == 3
MaxJointSteps == 3

(***************************************************************************)
(* Exact rational arithmetic (Python true division, mcts.py line 1).       *)
(***************************************************************************)
Abs(x) == IF x < 0 THEN -x ELSE x

RECURSIVE GCD(_, _)
GCD(a, b) == IF b = 0 THEN a ELSE GCD(b, a % b)

\* n/d in lowest terms, g being the greatest common divisor of n and d
Reduced(n, d, g) ==
    IF d < 0 THEN <<(-n) \div g, (-d) \div g>> ELSE <<n \div g, d \div g>>

Rat(n, d) == Reduced(n, d, GCD(Abs(n), Abs(d)))

RAdd(x, y) == Rat(x[1] * y[2] + y[1] * x[2], x[2] * y[2])
RSub(x, y) == Rat(x[1] * y[2] - y[1] * x[2], x[2] * y[2])
RMul(x, y) == Rat(x[1] * y[1], x[2] * y[2])
RDiv(x, y) == Rat(x[1] * y[2], x[2] * y[1])
RLess(x, y) == x[1] * y[2] < y[1] * x[2]
RLeq(x, y) == x[1] * y[2] <= y[1] * x[2]
Int2Rat(i) == <<i, 1>>
Zero == Int2Rat(0)
One == Int2Rat(1)

(***************************************************************************)
(* Python values.                                                          *)
(***************************************************************************)
None == -1          \* the action None (no previous action, no child)
NoNode == 0         \* the parent reference None
K == 1              \* Node.K, the filter gain

Actions == 0 .. (NumActions - 1)
Rewards == 0 .. MaxReward

(***************************************************************************)
(* Node                                                                    *)
(***************************************************************************)
\* Node.__init__(parent, prior)
Node(parent, prior) ==
    [parent |-> parent, prior |-> prior, children |-> <<>>, count |-> 0, value |-> Zero]

\* the address of a newly constructed object: one no live object has
NewId(h) == CHOOSE i \in 1 .. (Cardinality(DOMAIN h) + 1) :
                /\ i \notin DOMAIN h
                /\ \A j \in 1 .. (i - 1) : j \in DOMAIN h

\* self.children.keys(), in insertion order, and as a set
KeySeq(h, n) == [i \in 1 .. Len(h[n].children) |-> h[n].children[i][1]]
Keys(h, n) == {h[n].children[i][1] : i \in 1 .. Len(h[n].children)}
ChildIds(h, n) == {h[n].children[i][2] : i \in 1 .. Len(h[n].children)}

\* self.children[action]
Child(h, n, a) ==
    LET i == CHOOSE j \in 1 .. Len(h[n].children) : h[n].children[j][1] = a
    IN  h[n].children[i][2]

\* (a max that keeps the last maximal element instead of the first)
RECURSIVE MaxFromLast(_, _, _)
MaxFromLast(ks, i, best) ==
    IF i > Len(ks) THEN best
    ELSE MaxFromLast(ks, i + 1, IF RLeq(ks[best], ks[i]) THEN i ELSE best)

\* Python's max(iterable, key=...): the first element whose key is maximal
RECURSIVE MaxFrom(_, _, _)
MaxFrom(ks, i, best) ==
    IF i > Len(ks) THEN best
    ELSE MaxFrom(ks, i + 1, IF RLess(ks[best], ks[i]) THEN i ELSE best)

PyMax(ks) == MaxFrom(ks, 2, 1)

\* (an exploration bonus that does not shrink with the visit count)
SelectionStrategyNoDiscount(h, n, temperature) ==
    IF h[n].parent = NoNode THEN h[n].value
    ELSE RAdd(h[n].value, RMul(Int2Rat(temperature), h[n].prior))

\* Node.selection_strategy(temperature)
SelectionStrategy(h, n, temperature) ==
    IF h[n].parent = NoNode THEN h[n].value
    ELSE RAdd(h[n].value,
              RDiv(RMul(Int2Rat(temperature), h[n].prior), Int2Rat(h[n].count + 1)))

\* Node.select_action(temperature)
SelectAction(h, n, temperature) ==
    LET ch == h[n].children IN
    IF Len(ch) > 0
    THEN IF temperature = 0
         THEN ch[PyMax([i \in 1 .. Len(ch) |-> Int2Rat(h[ch[i][2]].count)])][1]
         ELSE ch[PyMax([i \in 1 .. Len(ch) |->
                            SelectionStrategy(h, ch[i][2], temperature)])][1]
    ELSE None

\* (an expand without the "not in self.children" test: an action that has a
\* child gets a new one in its place)
SetChild(h, n, a, prior, c) ==
    [j \in DOMAIN h \cup {c} |->
        IF j = c THEN Node(n, prior)
        ELSE IF j = n
             THEN [h[n] EXCEPT !.children =
                      IF a \in Keys(h, n)
                      THEN [k \in 1 .. Len(h[n].children) |->
                              IF h[n].children[k][1] = a THEN <<a, c>>
                              ELSE h[n].children[k]]
                      ELSE Append(h[n].children, <<a, c>>)]
             ELSE h[j]]

RECURSIVE ExpandOverwriting(_, _, _, _)
ExpandOverwriting(h, n, dist, i) ==
    IF i > Len(dist.actions) THEN h
    ELSE ExpandOverwriting(SetChild(h, n, dist.actions[i], dist.probabilities[i],
                                    NewId(h)),
                           n, dist, i + 1)

\* (a child created without the reference to its parent)
AddChildNoParent(h, n, a, prior, c) ==
    [j \in DOMAIN h \cup {c} |->
        IF j = c THEN Node(NoNode, prior)
        ELSE IF j = n THEN [h[n] EXCEPT !.children = Append(@, <<a, c>>)]
        ELSE h[j]]

\* self.children[a] = Node(self, prior), for an action a that has no child;
\* c is the new node
AddChild(h, n, a, prior, c) ==
    [j \in DOMAIN h \cup {c} |->
        IF j = c THEN Node(n, prior)
        ELSE IF j = n THEN [h[n] EXCEPT !.children = Append(@, <<a, c>>)]
        ELSE h[j]]

\* Node.expand(actions_distribution): the loop from index i on.  Reading
\* probabilities[i] past the end of the list raises IndexError, which ends
\* the loop with the children added so far.
RECURSIVE ExpandFrom(_, _, _, _)
ExpandFrom(h, n, dist, i) ==
    IF i > Len(dist.actions) THEN h
    ELSE IF dist.actions[i] \in Keys(h, n)
         THEN ExpandFrom(h, n, dist, i + 1)
         ELSE IF i > Len(dist.probabilities) THEN h
         ELSE ExpandFrom(AddChild(h, n, dist.actions[i], dist.probabilities[i],
                                  NewId(h)),
                         n, dist, i + 1)

Expand(h, n, dist) == ExpandFrom(h, n, dist, 1)

\* the exception Node.expand(actions_distribution) ends with, "" for none
RECURSIVE ExpandErrorFrom(_, _, _, _)
ExpandErrorFrom(h, n, dist, i) ==
    IF i > Len(dist.actions) THEN ""
    ELSE IF dist.actions[i] \in Keys(h, n)
         THEN ExpandErrorFrom(h, n, dist, i + 1)
         ELSE IF i > Len(dist.probabilities) THEN "IndexError"
         ELSE ExpandErrorFrom(AddChild(h, n, dist.actions[i], dist.probabilities[i],
                                       NewId(h)),
                              n, dist, i + 1)

ExpandError(h, n, dist) == ExpandErrorFrom(h, n, dist, 1)

\* (an update whose gain does not shrink with the visit count)
UpdateFixedGain(h, n, total_reward) ==
    LET count == h[n].count + 1
        value == RAdd(h[n].value,
                      RMul(RDiv(Int2Rat(K), Int2Rat(2)),
                           RSub(total_reward, h[n].value)))
    IN  [h EXCEPT ![n].count = count, ![n].value = value]

\* Node.update(total_reward)
Update(h, n, total_reward) ==
    LET count == h[n].count + 1
        value == RAdd(h[n].value,
                      RMul(RDiv(Int2Rat(K), Int2Rat(count)),
                           RSub(total_reward, h[n].value)))
    IN  [h EXCEPT ![n].count = count, ![n].value = value]

\* (an update_branch that updates the parent but goes no further up)
UpdateBranchOneLevel(h, n, total_reward) ==
    IF h[n].parent # NoNode
    THEN Update(Update(h, n, total_reward), h[n].parent, total_reward)
    ELSE Update(h, n, total_reward)

\* Node.update_branch(total_reward)
RECURSIVE UpdateBranch(_, _, _)
\* "if self.parent: self.parent.update_branch(total_reward)", h being the
\* heap once self is updated
UpdateParent(h, n, total_reward) ==
    IF h[n].parent # NoNode
    THEN UpdateBranch(h, h[n].parent, total_reward)
    ELSE h

UpdateBranch(h, n, total_reward) ==
    UpdateParent(Update(h, n, total_reward), n, total_reward)

\* Node.convert_visits_to_prior_in_branch(regularization); the recursive call
\* on each child passes no argument, so it runs with the default 0.5
DefaultRegularization == <<1, 2>>

RECURSIVE ConvertVisits(_, _, _)
RECURSIVE ConvertChildren(_, _, _, _, _)
RECURSIVE SumCounts(_, _, _)
SumCounts(h, n, i) ==
    IF i > Len(h[n].children) THEN 0
    ELSE (h[h[n].children[i][2]].count + 1) + SumCounts(h, n, i + 1)

\* the prior given to child c of n
NewPrior(h, n, c, regularization, total_count) ==
    RAdd(RDiv(RMul(regularization, Int2Rat(h[c].count + 1)), Int2Rat(total_count)),
         RDiv(regularization, Int2Rat(Len(h[n].children))))

\* the body of the loop over the children, from the i-th child on
ConvertChildren(h, n, regularization, total_count, i) ==
    IF i > Len(h[n].children) THEN h
    ELSE ConvertChildren(
             ConvertVisits([h EXCEPT ![h[n].children[i][2]].prior =
                               NewPrior(h, n, h[n].children[i][2], regularization,
                                        total_count)],
                           h[n].children[i][2], DefaultRegularization),
             n, regularization, total_count, i + 1)

ConvertVisits(h, n, regularization) ==
    ConvertChildren([h EXCEPT ![n].count = 0], n, regularization,
                    SumCounts(h, n, 1), 1)

(***************************************************************************)
(* Policies: a list of actions and a list of their probabilities.         *)
(***************************************************************************)
\* uniform probabilities over a given list of actions
\* (random_policy / random_available_policy)
UniformOver(actions) ==
    [actions |-> actions,
     probabilities |-> [i \in 1 .. Len(actions) |-> Rat(1, Len(actions))]]

\* the lists of available actions an environment may report: the actions
\* in increasing or in decreasing order, cut after any number of them (with
\* two actions, every non-empty list of distinct actions)
ActionOrders ==
    {[i \in 1 .. NumActions |-> i - 1], [i \in 1 .. NumActions |-> NumActions - i]}

ActionLists == {SubSeq(order, 1, k) : order \in ActionOrders, k \in 1 .. NumActions}

Dists == {UniformOver(s) : s \in ActionLists}

Regularizations == {Zero, DefaultRegularization, One}

\* what a faulty policy may return: lists of different lengths, a negative
\* probability, probabilities that do not sum to 1
MalformedDists ==
    {[actions |-> <<0, 1>>, probabilities |-> <<Rat(1, 2)>>],
     [actions |-> <<1>>, probabilities |-> <<Rat(1, 2), Rat(1, 2)>>],
     [actions |-> <<0, 1>>, probabilities |-> <<Rat(-1, 2), Rat(3, 2)>>],
     [actions |-> <<0, 1>>, probabilities |-> <<One, One>>]}

(***************************************************************************)
(* The environment, an external collaborator.  An environment object has   *)
(* a state t (here the number of steps it has taken), the behaviour model  *)
(* of the other vehicles, and a viewer that is not copied.  A step yields  *)
(* any reward and any terminal flag, whatever the action.                  *)
(***************************************************************************)
NoType == "None"            \* assume_vehicle_type = None
TrueModel == "true"         \* the behaviour of the real environment
VehicleTypes == {"IDM"}     \* the models an agent may assume instead

Env(t) == [t |-> t, model |-> TrueModel, viewer |-> TRUE]

\* what a step can answer: a reward of 0 or 1, and whether the episode ended
Outcomes == [reward : {0, 1}, terminal : BOOLEAN]

\* state.step(action) on the object es[sh]
EnvStep(es, sh, action) == [es EXCEPT ![sh].t = @ + 1]

NewEnvId(es) == CHOOSE c \in 1 .. (Cardinality(DOMAIN es) + 1) : c \notin DOMAIN es

\* (a copy that hands back the object itself)
CopyAlias(es, sh) == [envs |-> es, h |-> sh]

\* MCTS.custom_deepcopy(obj): a new object, every field copied but the viewer
CustomDeepcopy(es, sh) ==
    [envs |-> es @@ (NewEnvId(es) :> [es[sh] EXCEPT !.viewer = FALSE]),
     h |-> NewEnvId(es)]

\* MCTSAgent.change_agent_model(state, agent_type): a deep copy of the state
\* in which the other vehicles follow agent_type
ChangeAgentModel(es, sh, agent_type) ==
    [envs |-> es @@ (NewEnvId(es) :> [es[sh] EXCEPT !.model = agent_type]),
     h |-> NewEnvId(es)]

\* MCTSAgent.random_policy(state): uniform over arange(action_space.n)
RandomPolicy(env) == UniformOver([k \in 1 .. NumActions |-> k - 1])

\* the policies MCTSAgent.__init__ installs by default
PriorPolicy(env) == RandomPolicy(env)
RolloutPolicy(env) == RandomPolicy(env)

\* the actions np_random.choice(actions, 1, p=probabilities) can return
Support(dist) ==
    {dist.actions[k] : k \in {j \in 1 .. Len(dist.actions) :
                                 RLess(Zero, dist.probabilities[j])}}

(***************************************************************************)
(* MCTS                                                                    *)
(***************************************************************************)
Temperature == 10

\* what sys.getrefcount keeps alive: the objects reachable from a set of
\* nodes through children and parent references
Referenced(h, S) ==
    (S \cup UNION {ChildIds(h, n) : n \in S} \cup {h[n].parent : n \in S}) \ {NoNode}

RECURSIVE Closure(_, _)
Closure(h, S) == IF Referenced(h, S) = S THEN S ELSE Closure(h, Referenced(h, S))

\* the heap once the objects unreachable from node r are reclaimed
Collect(h, r) == [n \in Closure(h, {r}) |-> h[n]]

\* one step of a simulation as the trace of a run records it
StepRecord(phase, action, copy, env, outcome) ==
    [phase |-> phase, action |-> action, env |-> copy, model |-> env.model,
     t |-> env.t,
     reward |-> outcome.reward, terminal |-> outcome.terminal]

\* MCTS.run: the selection loop.  rs is the run's local state; oracle[k] is
\* what the environment answers to the k-th step of this run.
\* the body of the selection loop, for the action selected and the
\* environment's answer o
SelectionStep(rs, sh, action, o) ==
    [rs EXCEPT !.envs = EnvStep(rs.envs, sh, action),
               !.total_reward = @ + o.reward,
               !.terminal = o.terminal,
               !.node = Child(rs.heap, rs.node, action),
               !.depth = @ - 1,
               !.trace = Append(@, StepRecord("selection", action, sh, rs.envs[sh], o))]

RECURSIVE Selection(_, _, _)
Selection(rs, sh, oracle) ==
    IF rs.depth > 0 /\ Len(rs.heap[rs.node].children) > 0 /\ ~rs.terminal
    THEN Selection(SelectionStep(rs, sh,
                                 SelectAction(rs.heap, rs.node, Temperature),
                                 oracle[Len(rs.trace) + 1]),
                   sh, oracle)
    ELSE rs

\* (an expansion test that forgets the terminal flag)
ShouldExpandAnyLeaf(h, rt, node, terminal) ==
    Len(h[node].children) = 0

\* (no expansion test: the node a run ends at is always expanded)
ShouldExpandAlways(h, rt, node, terminal) ==
    TRUE

\* MCTS.run: the test guarding node.expand
ShouldExpand(h, rt, node, terminal) ==
    Len(h[node].children) = 0 /\ (~terminal \/ node = rt)

\* MCTS.run: "if not node.children and (...): node.expand(prior_policy(state))"
Expansion(rs, rt, sh) ==
    IF ShouldExpand(rs.heap, rt, rs.node, rs.terminal)
    THEN [rs EXCEPT !.heap = Expand(rs.heap, rs.node, PriorPolicy(rs.envs[sh])),
                    !.expanded = TRUE]
    ELSE rs

\* MCTS.evaluate(state, total_reward, limit): the rollout loop.  The action
\* is drawn from the rollout policy; the step's outcome is oracle[k] for any
\* action, so the draw itself leaves no mark (None in the trace).
RolloutStep(rs, sh, o) ==
    [rs EXCEPT !.envs = EnvStep(rs.envs, sh, None),
               !.total_reward = @ + o.reward,
               !.terminal = o.terminal,
               !.trace = Append(@, StepRecord("rollout", None, sh, rs.envs[sh], o))]

\* (a rollout that goes on after a terminal step)
RECURSIVE EvaluateNoBreak(_, _, _, _)
EvaluateNoBreak(rs, sh, oracle, limit) ==
    IF limit = 0 \/ Support(RolloutPolicy(rs.envs[sh])) = {} THEN rs
    ELSE EvaluateNoBreak(RolloutStep(rs, sh, oracle[Len(rs.trace) + 1]), sh, oracle,
                         limit - 1)

RECURSIVE Evaluate(_, _, _, _)
Evaluate(rs, sh, oracle, limit) ==
    IF limit = 0 \/ rs.terminal \/ Support(RolloutPolicy(rs.envs[sh])) = {} THEN rs
    ELSE Evaluate(RolloutStep(rs, sh, oracle[Len(rs.trace) + 1]), sh, oracle, limit - 1)

\* MCTS.run: "if not terminal: total_reward = self.evaluate(state, total_reward, limit=depth)"
Rollout(rs, sh, oracle) ==
    IF ~rs.terminal THEN Evaluate(rs, sh, oracle, rs.depth) ELSE rs

\* (a backpropagation that updates the node reached and none of its ancestors)
BackpropagationNodeOnly(rs) ==
    [rs EXCEPT !.heap = Update(rs.heap, rs.node, Int2Rat(rs.total_reward))]

\* MCTS.run: "node.update_branch(total_reward)"
Backpropagation(rs) ==
    [rs EXCEPT !.heap = UpdateBranch(rs.heap, rs.node, Int2Rat(rs.total_reward))]

\* MCTS.run(state): state is the object es[sh]
Run(h, rt, es, sh, oracle) ==
    Backpropagation(
        Rollout(
            Expansion(
                Selection([heap |-> h, envs |-> es, node |-> rt, total_reward |-> 0,
                           depth |-> MaxDepth, terminal |-> FALSE, trace |-> <<>>,
                           expanded |-> FALSE],
                          sh, oracle),
                rt, sh),
            sh, oracle))

\* MCTS.plan(state), the end of one pass of the loop: the copy the run was
\* given is dropped; cp is the copy made, r the state the run ended in
EndIteration(es, cp, r) ==
    [heap |-> r.heap,
     envs |-> [x \in DOMAIN es |-> r.envs[x]],
     node |-> r.node, expanded |-> r.expanded,
     total_reward |-> r.total_reward, trace |-> r.trace,
     copy |-> cp.h, start |-> cp.envs[cp.h]]

RunOnCopy(h, rt, es, cp, oracle) ==
    EndIteration(es, cp, Run(h, rt, cp.envs, cp.h, oracle))

\* MCTS.plan(state), one pass of the loop body: the state is copied and the
\* run is given the copy
PlanIteration(h, rt, es, sh, oracle) ==
    RunOnCopy(h, rt, es, CustomDeepcopy(es, sh), oracle)

\* MCTS.get_plan(): the actions of greatest visit count from node n down
RECURSIVE GetPlanFrom(_, _)
GetPlanFrom(h, n) ==
    IF Len(h[n].children) > 0
    THEN <<SelectAction(h, n, 0)>> \o GetPlanFrom(h, Child(h, n, SelectAction(h, n, 0)))
    ELSE <<>>

GetPlan(h, rt) == GetPlanFrom(h, rt)

\* MCTS.step_by_reset()
StepByReset(h, rt) ==
    [heap |-> Collect(h @@ (NewId(h) :> Node(NoNode, One)), NewId(h)),
     root |-> NewId(h)]

\* (a step_by_subtree that leaves the promoted child's parent link in place)
StepBySubtreeKeepingParent(h, rt, action) ==
    IF action \in Keys(h, rt)
    THEN [heap |-> Collect(h, Child(h, rt, action)), root |-> Child(h, rt, action)]
    ELSE StepByReset(h, rt)

\* MCTS.step_by_subtree(action)
StepBySubtree(h, rt, action) ==
    IF action \in Keys(h, rt)
    THEN [heap |-> Collect([h EXCEPT ![Child(h, rt, action)].parent = NoNode],
                           Child(h, rt, action)),
          root |-> Child(h, rt, action)]
    ELSE StepByReset(h, rt)

\* (a step that always starts a new tree)
StepAlwaysReset(h, rt, action) == StepByReset(h, rt)

\* MCTS.step(action)
Step(h, rt, action) == StepBySubtree(h, rt, action)

\* MCTS.step_by_prior(action)
ConvertTree(t1) ==
    [heap |-> ConvertVisits(t1.heap, t1.root, DefaultRegularization),
     root |-> t1.root]

StepByPrior(h, rt, action) == ConvertTree(StepBySubtree(h, rt, action))

(***************************************************************************)
(* History of the update calls each node received since it was created or  *)
(* its count was last reset: their number n and the sum s of the rewards.  *)
(***************************************************************************)
NoUpdates == [n |-> 0, s |-> 0]

\* the nodes on the path from n up to the root of its tree, through the
\* children dicts: n itself and every node having n below it
RECURSIVE Below(_, _)
Below(h, n) ==
    {n} \cup UNION {Below(h, c) : c \in ChildIds(h, n)}

RECURSIVE PathTo(_, _)
PathTo(h, n) ==
    {n} \cup UNION {PathTo(h, m) : m \in {x \in DOMAIN h : n \in ChildIds(h, x)}}

Upd(h2, updated, r, reset) ==
    [i \in DOMAIN h2 |->
        IF i \notin DOMAIN upd \/ i \in reset THEN NoUpdates
        ELSE IF i \in updated THEN [n |-> upd[i].n + 1, s |-> upd[i].s + r]
        ELSE upd[i]]

(***************************************************************************)
(* The Node interface driven directly: any method on any node of a tree.  *)
(***************************************************************************)
\* the number of calls made so far is bounded
Tick == ops < MaxOps /\ ops' = ops + 1

InitNode ==
    /\ heap = (1 :> Node(NoNode, One))
    /\ root = 1
    /\ upd = (1 :> NoUpdates)
    /\ call = [op |-> "init", node |-> 1, arg |-> 0, res |-> 0]
    /\ ops = 0
    /\ envs = (1 :> Env(0))
    /\ previous_action = None
    /\ iterations = 0
    /\ assume_vehicle_type = NoType
    /\ pc = "idle"
    /\ iter = 0
    /\ agents = <<>>
    /\ joint_state = <<>>

NodeExpand(n, dist) ==
    /\ Tick
    /\ Cardinality(DOMAIN Expand(heap, n, dist)) <= MaxNodes
    /\ heap' = Expand(heap, n, dist)
    /\ upd' = Upd(heap', {}, 0, {})
    /\ call' = [op |-> "expand", node |-> n, arg |-> dist,
                res |-> Len(heap[n].children)]
    /\ UNCHANGED <<root, agent>>

NodeUpdate(n, r) ==
    /\ Tick
    /\ heap' = Update(heap, n, Int2Rat(r))
    /\ upd' = Upd(heap', {n}, r, {})
    /\ call' = [op |-> "update", node |-> n, arg |-> r, res |-> 0]
    /\ UNCHANGED <<root, agent>>

NodeUpdateBranch(n, r) ==
    /\ Tick
    /\ heap' = UpdateBranch(heap, n, Int2Rat(r))
    /\ upd' = Upd(heap', PathTo(heap, n), r, {})
    /\ call' = [op |-> "update_branch", node |-> n, arg |-> r, res |-> 0]
    /\ UNCHANGED <<root, agent>>

NodeSelectAction(n, temperature) ==
    /\ Tick
    /\ call' = [op |-> "select_action", node |-> n, arg |-> temperature,
                res |-> SelectAction(heap, n, temperature)]
    /\ UNCHANGED <<heap, root, upd, agent>>

NodeConvert(n, regularization) ==
    /\ Tick
    /\ heap' = ConvertVisits(heap, n, regularization)
    /\ upd' = Upd(heap', {}, 0, Below(heap, n))
    /\ call' = [op |-> "convert", node |-> n, arg |-> regularization, res |-> 0]
    /\ UNCHANGED <<root, agent>>

\* Node.expand called with the output of a faulty policy
NodeExpandMalformed(n, dist) ==
    /\ Tick
    /\ Cardinality(DOMAIN Expand(heap, n, dist)) <= MaxNodes
    /\ heap' = Expand(heap, n, dist)
    /\ upd' = Upd(heap', {}, 0, {})
    /\ call' = [op |-> "expand_malformed", node |-> n, arg |-> dist,
                res |-> [error |-> ExpandError(heap, n, dist),
                         before |-> Len(heap[n].children)]]
    /\ UNCHANGED <<root, agent>>

NextNode ==
    \/ \E n \in DOMAIN heap, dist \in Dists : NodeExpand(n, dist)
    \/ \E n \in DOMAIN heap, r \in Rewards : NodeUpdate(n, r)
    \/ \E n \in DOMAIN heap, r \in Rewards : NodeUpdateBranch(n, r)
    \/ \E n \in DOMAIN heap, t \in {0, Temperature} : NodeSelectAction(n, t)
    \/ \E n \in DOMAIN heap, reg \in Regularizations : NodeConvert(n, reg)

SpecNode == InitNode /\ [][NextNode]_vars

NextMalformed ==
    \/ NextNode
    \/ \E n \in DOMAIN heap, dist \in MalformedDists : NodeExpandMalformed(n, dist)

SpecMalformed == InitNode /\ [][NextMalformed]_vars

(***************************************************************************)
(* The MCTS interface driven directly: run on a copy of the environment,   *)
(* and the three ways of moving the tree to the next decision.             *)
(***************************************************************************)
\* the answers of the environment to the successive steps of one run; once
\* it has answered terminal it goes on answering terminal, with reward 0
Oracles ==
    {o \in [1 .. MaxDepth -> Outcomes] :
        \A k \in 1 .. MaxDepth : \A j \in 1 .. MaxDepth :
            (o[k].terminal /\ j > k) => (o[j].terminal /\ o[j].reward = 0)}

InitTree == InitNode

TickTree == ops < MaxTreeOps /\ ops' = ops + 1

\* one pass of the loop of MCTS.plan on the environment SelfEnv
RunCall(oracle) ==
    /\ \E p \in {PlanIteration(heap, root, envs, 1, oracle)} :
         /\ heap' = p.heap
         /\ envs' = p.envs
         /\ upd' = Upd(heap', PathTo(heap', p.node), p.total_reward, {})
         /\ call' = [op |-> "run", node |-> p.node,
                     arg |-> [src |-> 1, copy |-> p.copy, start |-> p.start],
                     res |-> [trace |-> p.trace, expanded |-> p.expanded,
                              total_reward |-> p.total_reward]]
    /\ UNCHANGED <<root, previous_action, iterations, assume_vehicle_type, pc, iter,
                   agents, joint_state>>

TreeRun(oracle) ==
    /\ TickTree
    /\ RunCall(oracle)

TreeStepByReset ==
    /\ TickTree
    /\ \E t1 \in {StepByReset(heap, root)} :
         /\ heap' = t1.heap
         /\ root' = t1.root
         /\ upd' = Upd(heap', {}, 0, {})
         /\ call' = [op |-> "step_by_reset", node |-> t1.root, arg |-> None, res |-> 0]
    /\ UNCHANGED agent

TreeStepBySubtree(action) ==
    /\ TickTree
    /\ \E t1 \in {StepBySubtree(heap, root, action)} :
         /\ heap' = t1.heap
         /\ root' = t1.root
         /\ upd' = Upd(heap', {}, 0, {})
         /\ call' = [op |-> "step_by_subtree", node |-> t1.root, arg |-> action,
                     res |-> [explored |-> action \in Keys(heap, root),
                              size |-> Cardinality(DOMAIN heap)]]
    /\ UNCHANGED agent

TreeStepByPrior(action) ==
    /\ TickTree
    /\ \E t1 \in {StepByPrior(heap, root, action)} :
         /\ heap' = t1.heap
         /\ root' = t1.root
         /\ upd' = Upd(heap', {}, 0, DOMAIN heap')
         /\ call' = [op |-> "step_by_prior", node |-> t1.root, arg |-> action,
                     res |-> 0]
    /\ UNCHANGED agent

\* node.select_action(temperature) on a node of the tree; a query, which
\* changes nothing.  It is asked of the root and of the nodes right below
\* it, the first nodes the descent of MCTS.run asks it of, with the
\* temperature 0 and with the agent's.
TreeSelectAction(n, temperature) ==
    /\ call' = [op |-> "select_action", node |-> n, arg |-> temperature,
                res |-> SelectAction(heap, n, temperature)]
    /\ UNCHANGED <<heap, root, upd, ops, agent>>

NextTree ==
    \/ \E oracle \in Oracles : TreeRun(oracle)
    \/ \E n \in {root} \cup ChildIds(heap, root), t \in {0, Temperature} :
          TreeSelectAction(n, t)
    \/ TreeStepByReset
    \/ \E action \in Actions \cup {None} : TreeStepBySubtree(action)
    \/ \E action \in Actions \cup {None} : TreeStepByPrior(action)

SpecTree == InitTree /\ [][NextTree]_vars

\* MCTS.plan on a fresh tree, pass after pass of its loop
NextRuns ==
    \E oracle \in Oracles :
        /\ ops < MaxPlanRuns
        /\ ops' = ops + 1
        /\ RunCall(oracle)

SpecRuns == InitTree /\ [][NextRuns]_vars

(***************************************************************************)
(* MCTSAgent: plan(state) advances the tree by the previous action, runs   *)
(* the iterations of MCTS.plan one by one and returns the plan; reset()    *)
(* may be called between two plans.                                        *)
(***************************************************************************)
SelfEnv == 1        \* the handle of MCTSAgent.env, also the state handed to plan

\* MCTSAgent.plan: the local variable state after the optional substitution
SubstitutedState(es, sh, type) ==
    IF type # NoType THEN ChangeAgentModel(es, sh, type) ELSE [envs |-> es, h |-> sh]

\* MCTSAgent.plan: the argument of self.mcts.plan(...), given the handles of
\* self.env and of the local variable state
PlannedState(selfenv, state) == selfenv

Init ==
    /\ heap = (1 :> Node(NoNode, One))
    /\ root = 1
    /\ upd = (1 :> NoUpdates)
    /\ call = [op |-> "init", node |-> 1, arg |-> 0, res |-> 0]
    /\ ops = 0
    /\ envs = (SelfEnv :> Env(0))
    /\ previous_action = None
    /\ iterations \in 0 .. MaxIterations
    /\ assume_vehicle_type \in {NoType} \cup VehicleTypes
    /\ pc = "idle"
    /\ iter = 0
    /\ agents = <<>>
    /\ joint_state = <<>>

\* MCTSAgent.plan, up to the call of MCTS.plan
AgentPlan ==
    /\ pc = "idle"
    /\ \E t1 \in {Step(heap, root, previous_action)},
          sub \in {SubstitutedState(envs, SelfEnv, assume_vehicle_type)} :
           /\ heap' = t1.heap
           /\ root' = t1.root
           /\ envs' = sub.envs
           /\ call' = [op |-> "plan", node |-> t1.root, arg |-> previous_action,
                       res |-> [state |-> sub.h,
                                planned |-> PlannedState(SelfEnv, sub.h)]]
    /\ upd' = Upd(heap', {}, 0, {})
    /\ pc' = "planning"
    /\ iter' = 0
    /\ UNCHANGED <<previous_action, iterations, assume_vehicle_type, ops, agents,
                   joint_state>>

\* MCTS.plan: one iteration of the loop
PlanIterate(oracle) ==
    /\ pc = "planning"
    /\ iter < iterations
    /\ ops < MaxRuns
    /\ ops' = ops + 1
    /\ \E p \in {PlanIteration(heap, root, envs, call.res.planned, oracle)} :
         /\ heap' = p.heap
         /\ envs' = p.envs
         /\ upd' = Upd(heap', PathTo(heap', p.node), p.total_reward, {})
         /\ call' = [op |-> "run", node |-> p.node,
                     arg |-> [src |-> call.res.planned, copy |-> p.copy,
                              start |-> p.start],
                     res |-> [trace |-> p.trace, expanded |-> p.expanded,
                              total_reward |-> p.total_reward,
                              state |-> call.res.state,
                              planned |-> call.res.planned]]
    /\ iter' = iter + 1
    /\ UNCHANGED <<root, previous_action, iterations, assume_vehicle_type, pc, agents,
                   joint_state>>

\* MCTS.plan returns get_plan(); MCTSAgent.plan takes actions[0], which
\* raises IndexError on an empty plan, and returns
PlanReturn ==
    /\ pc = "planning"
    /\ iter = iterations
    /\ \E actions \in {GetPlan(heap, root)} :
         IF Len(actions) = 0
         THEN /\ call' = [op |-> "IndexError", node |-> root, arg |-> actions, res |-> 0]
              /\ UNCHANGED previous_action
         ELSE /\ call' = [op |-> "return", node |-> root, arg |-> actions, res |-> 0]
              /\ previous_action' = actions[1]
    /\ envs' = [x \in {SelfEnv} |-> envs[x]]
    /\ pc' = "idle"
    /\ UNCHANGED <<heap, root, upd, iterations, assume_vehicle_type, iter, ops, agents,
                   joint_state>>

\* MCTSAgent.reset()
AgentReset ==
    /\ pc = "idle"
    /\ call.op # "reset"
    /\ \E t1 \in {StepByReset(heap, root)} :
         /\ heap' = t1.heap
         /\ root' = t1.root
         /\ call' = [op |-> "reset", node |-> t1.root, arg |-> None, res |-> 0]
    /\ upd' = Upd(heap', {}, 0, {})
    /\ UNCHANGED <<agent, ops>>

Next ==
    \/ AgentPlan
    \/ \E oracle \in Oracles : PlanIterate(oracle)
    \/ PlanReturn
    \/ AgentReset

Spec == Init /\ [][Next]_vars

(***************************************************************************)
(* RobustMCTSAgent: one MCTSAgent per model, all living in the same heap.  *)
(* plan(state) makes every sub-agent plan, then picks the action whose     *)
(* worst value over the sub-agents' roots is greatest.                     *)
(***************************************************************************)
\* the Python values a constructor parameter can hold
PyNone == [type |-> "NoneType"]
PyInt(i) == [type |-> "int", v |-> i]
PyFunction(name) == [type |-> "function", v |-> name]
PyEnv(h) == [type |-> "env", v |-> h]
PyModel(m) == [type |-> "model", v |-> m]

\* bool(x), and "x or y"
Truthy(x) ==
    CASE x.type = "NoneType" -> FALSE
      [] x.type = "int" -> x.v # 0
      [] OTHER -> TRUE
PyOr(x, y) == IF Truthy(x) THEN x ELSE y

DefaultMaxDepth == 7

\* MCTSAgent.__init__(env, prior_policy, rollout_policy, iterations,
\* temperature, max_depth, assume_vehicle_type), its MCTS having the root rt
MCTSAgentInit(env, prior_policy, rollout_policy, its, temperature, max_depth, vehicle_type, rt) ==
    [env |-> env,
     prior_policy |-> PyOr(prior_policy, PyFunction("random_policy")),
     rollout_policy |-> PyOr(rollout_policy, PyFunction("random_policy")),
     iterations |-> its,
     temperature |-> temperature,
     max_depth |-> max_depth,
     assume_vehicle_type |-> vehicle_type,
     previous_action |-> None,
     root |-> rt]

\* RobustMCTSAgent.__init__: each sub-agent is built by
\* MCTSAgent(prior_policy, rollout_policy, iterations, temperature,
\*           assume_vehicle_type=model)
\* whose positional arguments bind, in order, to the parameters env,
\* prior_policy, rollout_policy and iterations of MCTSAgent.__init__;
\* temperature and max_depth take their defaults
RobustInit(models, prior_policy, rollout_policy, its, temperature) ==
    [i \in 1 .. Len(models) |->
        MCTSAgentInit(prior_policy, rollout_policy, its, temperature,
                      PyInt(Temperature), PyInt(DefaultMaxDepth),
                      PyModel(models[i]), i)]

Roots(ags) == {ags[i].root : i \in 1 .. Len(ags)}

\* the heap once the objects no sub-agent's tree references are reclaimed
CollectAll(st) ==
    [st EXCEPT !.heap = [n \in Closure(st.heap, Roots(st.agents)) |-> st.heap[n]]]

\* MCTS.step(action) in the sub-agent i
RobustStep(st, i, action) ==
    IF action \in Keys(st.heap, st.agents[i].root)
    THEN [st EXCEPT
            !.heap = [@ EXCEPT ![Child(st.heap, st.agents[i].root, action)].parent = NoNode],
            !.agents = [@ EXCEPT ![i].root = Child(st.heap, st.agents[i].root, action)]]
    ELSE [st EXCEPT
            !.heap = @ @@ (NewId(st.heap) :> Node(NoNode, One)),
            !.agents = [@ EXCEPT ![i].root = NewId(st.heap)]]

\* MCTS.plan(state): the loop, from its k-th pass on
RECURSIVE RobustIterations(_, _, _, _, _, _, _)
RobustIterations(h, rt, es, sh, n, oracles, k) ==
    IF k > n THEN h
    ELSE RobustIterations(PlanIteration(h, rt, es, sh, oracles[k]).heap,
                          rt, es, sh, n, oracles, k + 1)

PlanResult(h, rt) == [heap |-> h, error |-> "", actions |-> GetPlan(h, rt)]

\* MCTS.plan(state) of the sub-agent a, state being a.env: the first pass of
\* the loop reads state.unwrapped, in the try block and again in its
\* "except AttributeError" handler, which only an environment has
SubPlan(h, a, es, oracles) ==
    IF a.iterations.v = 0 THEN PlanResult(h, a.root)
    ELSE IF a.env.type # "env"
    THEN [heap |-> h, error |-> "AttributeError", actions |-> <<>>]
    ELSE PlanResult(RobustIterations(h, a.root, es, a.env.v, a.iterations.v, oracles, 1),
                    a.root)

\* MCTSAgent.plan, after self.mcts.plan: previous_action = actions[0]
SubAgentPlanEnd(st, i, r) ==
    IF r.error # ""
    THEN [st EXCEPT !.heap = r.heap, !.error = r.error, !.failed = i]
    ELSE IF Len(r.actions) = 0
    THEN [st EXCEPT !.heap = r.heap, !.error = "IndexError", !.failed = i]
    ELSE [st EXCEPT !.heap = r.heap, !.agents[i].previous_action = r.actions[1]]

SubAgentPlanFrom(st, i, es, oracles) ==
    SubAgentPlanEnd(st, i, SubPlan(st.heap, st.agents[i], es, oracles))

\* MCTSAgent.plan(state) of the sub-agent i.  The state substituted by
\* change_agent_model is a local copy that nothing uses.
SubAgentPlan(st, i, es, oracles) ==
    SubAgentPlanFrom(CollectAll(RobustStep(st, i, st.agents[i].previous_action)),
                     i, es, oracles)

\* RobustMCTSAgent.plan: "for agent in self.agents: agent.plan(state)"
RECURSIVE PlanAgents(_, _, _, _)
PlanAgents(st, i, es, oracles) ==
    IF i > Len(st.agents) \/ st.error # "" THEN st
    ELSE PlanAgents(SubAgentPlan(st, i, es, oracles[i]), i + 1, es, oracles)

\* state.ACTIONS.keys()
ActionKeys == [k \in 1 .. NumActions |-> k - 1]

\* np.inf, and min(v, x)
Inf == <<1, 0>>
RMin(v, x) == IF RLess(x, v) THEN x ELSE v

\* the keys of min_action_values once every sub-agent has filtered it
Candidates(h, ags) ==
    SelectSeq(ActionKeys,
              LAMBDA k : \A i \in 1 .. Len(ags) : k \in Keys(h, ags[i].root))

\* min_action_values[k]: v folded with the sub-agents i, i+1, ...
RECURSIVE MinActionValue(_, _, _, _, _)
MinActionValue(h, ags, k, i, v) ==
    IF i > Len(ags) THEN v
    ELSE MinActionValue(h, ags, k, i + 1, RMin(v, h[Child(h, ags[i].root, k)].value))

MinActionValues(h, ags, cands) ==
    [j \in 1 .. Len(cands) |-> MinActionValue(h, ags, cands[j], 1, Inf)]

\* "for agent in self.agents: agent.previous_action = action"
Commit(st, action) ==
    [st EXCEPT !.action = action,
               !.agents = [i \in 1 .. Len(st.agents) |->
                              [st.agents[i] EXCEPT !.previous_action = action]]]

\* RobustMCTSAgent.plan, after the sub-agents planned; max of an empty
\* sequence raises ValueError
AggregateOver(st, cands) ==
    IF Len(cands) = 0 THEN [st EXCEPT !.error = "ValueError"]
    ELSE Commit(st, cands[PyMax(MinActionValues(st.heap, st.agents, cands))])

Aggregate(st) ==
    IF st.error # "" THEN st ELSE AggregateOver(st, Candidates(st.heap, st.agents))

\* RobustMCTSAgent.reset: "for agent in self.agents: agent.reset()"
RECURSIVE ResetAgents(_, _)
ResetAgents(st, i) ==
    IF i > Len(st.agents) THEN st
    ELSE ResetAgents(CollectAll(RobustStep(st, i, None)), i + 1)

\* the answers of the environment to every run of every sub-agent; they
\* matter only when some sub-agent gets to simulate
RobustOracles(ags) ==
    IF \E i \in 1 .. Len(ags) : ags[i].env.type = "env" /\ ags[i].iterations.v > 0
    THEN [1 .. Len(ags) -> [1 .. MaxIterations -> Oracles]]
    ELSE {[i \in 1 .. Len(ags) |-> <<>>]}

ModelLists == UNION {[1 .. n -> VehicleTypes] : n \in 0 .. MaxModels}
PolicyArguments == {PyNone, PyFunction("random_policy")}

\* RobustMCTSAgent(models, prior_policy, rollout_policy, iterations, temperature)
InitRobust ==
    /\ \E models \in ModelLists, prior_policy \in PolicyArguments,
          rollout_policy \in PolicyArguments,
          its \in 0 .. MaxIterations, temperature \in 0 .. MaxIterations :
          /\ agents = RobustInit(models, prior_policy, rollout_policy,
                                 PyInt(its), PyInt(temperature))
          /\ heap = [i \in 1 .. Len(models) |-> Node(NoNode, One)]
    /\ root = NoNode
    /\ upd = <<>>
    /\ call = [op |-> "init", node |-> NoNode, arg |-> 0, res |-> 0]
    /\ ops = 0
    /\ envs = (SelfEnv :> Env(0))
    /\ previous_action = None
    /\ iterations = 0
    /\ assume_vehicle_type = NoType
    /\ pc = "idle"
    /\ iter = 0
    /\ joint_state = <<>>

\* the state a call of RobustMCTSAgent starts in
RobustState == [heap |-> heap, agents |-> agents, error |-> "", failed |-> 0,
                action |-> None]

\* RobustMCTSAgent.plan(state), state being the environment SelfEnv
RobustPlan ==
    /\ \E oracles \in RobustOracles(agents) :
         \E st \in {Aggregate(PlanAgents(RobustState, 1, envs, oracles))} :
            /\ heap' = st.heap
            /\ agents' = st.agents
            /\ call' = [op |-> "robust_plan", node |-> NoNode, arg |-> SelfEnv,
                        res |-> [outcome |-> IF st.error = "" THEN "return" ELSE st.error,
                                 action |-> st.action, failed |-> st.failed]]
    /\ UNCHANGED <<root, envs, previous_action, iterations, assume_vehicle_type,
                   pc, iter, upd, ops, joint_state>>

\* RobustMCTSAgent.reset()
RobustReset ==
    /\ \E st \in {ResetAgents(RobustState, 1)} :
         /\ heap' = st.heap
         /\ agents' = st.agents
    /\ call' = [op |-> "robust_reset", node |-> NoNode, arg |-> None, res |-> 0]
    /\ UNCHANGED <<root, envs, previous_action, iterations, assume_vehicle_type,
                   pc, iter, upd, ops, joint_state>>

NextRobust ==
    \/ RobustPlan
    \/ RobustReset

SpecRobust == InitRobust /\ [][NextRobust]_vars

(***************************************************************************)
(* The static policies of MCTSAgent, called on a state that may or may not *)
(* answer get_available_actions.                                           *)
(***************************************************************************)
\* a state as the policies see it: the size of its action space, whether it
\* has a get_available_actions method, and what the method returns
PolicyStates ==
    UNION {{[n |-> k, query |-> TRUE, available |-> s] :
               s \in {x \in ActionLists : \A i \in DOMAIN x : x[i] < k}} :
           k \in 1 .. NumActions}
    \cup {[n |-> k, query |-> FALSE, available |-> <<>>] : k \in 1 .. NumActions}

Ratios == 1 .. MaxRatio

\* "if hasattr(state, 'get_available_actions'): ... else: np.arange(n)"
AvailableActions(state) ==
    IF state.query THEN state.available ELSE [k \in 1 .. state.n |-> k - 1]

\* MCTSAgent.random_available_policy(state)
RandomAvailablePolicy(state) == UniformOver(AvailableActions(state))

\* the probabilities preference_policy builds once it found the preferred
\* action at index i: ones / (len - 1 + ratio), the i-th times ratio
Preferring(available_actions, i, ratio) ==
    [j \in 1 .. Len(available_actions) |->
        IF j = i
        THEN RMul(Rat(1, Len(available_actions) - 1 + ratio), Int2Rat(ratio))
        ELSE Rat(1, Len(available_actions) - 1 + ratio)]

\* (probabilities normalised by len + ratio)
RECURSIVE PreferencePolicyOverNormalised(_, _, _, _)
PreferencePolicyOverNormalised(state, action_index, ratio, i) ==
    IF i > Len(AvailableActions(state)) THEN RandomAvailablePolicy(state)
    ELSE IF AvailableActions(state)[i] = action_index
    THEN [actions |-> AvailableActions(state),
          probabilities |->
              [j \in 1 .. Len(AvailableActions(state)) |->
                  IF j = i
                  THEN Rat(ratio, Len(AvailableActions(state)) + ratio)
                  ELSE Rat(1, Len(AvailableActions(state)) + ratio)]]
    ELSE PreferencePolicyOverNormalised(state, action_index, ratio, i + 1)

\* MCTSAgent.preference_policy: the loop over the available actions, from
\* index i on
RECURSIVE PreferencePolicyFrom(_, _, _, _)
PreferencePolicyFrom(state, action_index, ratio, i) ==
    IF i > Len(AvailableActions(state)) THEN RandomAvailablePolicy(state)
    ELSE IF AvailableActions(state)[i] = action_index
    THEN [actions |-> AvailableActions(state),
          probabilities |-> Preferring(AvailableActions(state), i, ratio)]
    ELSE PreferencePolicyFrom(state, action_index, ratio, i + 1)

\* MCTSAgent.preference_policy(state, action_index, ratio)
PreferencePolicy(state, action_index, ratio) ==
    PreferencePolicyFrom(state, action_index, ratio, 1)

DefaultRatio == 2

\* MCTSAgent.fast_policy(state), MCTSAgent.idle_policy(state)
FastPolicy(state) == PreferencePolicy(state, 3, DefaultRatio)
IdlePolicy(state) == PreferencePolicy(state, 0, DefaultRatio)

\* the record of a call of a policy
PolicyCall(op, state, action_index, ratio, res) ==
    [op |-> op, node |-> root,
     arg |-> [state |-> state, action_index |-> action_index, ratio |-> ratio],
     res |-> res]

CallPreferencePolicy(state, action_index, ratio) ==
    /\ Tick
    /\ call' = PolicyCall("preference_policy", state, action_index, ratio,
                          PreferencePolicy(state, action_index, ratio))
    /\ UNCHANGED <<heap, root, upd, agent>>

CallRandomAvailablePolicy(state) ==
    /\ Tick
    /\ call' = PolicyCall("random_available_policy", state, None, 1,
                          RandomAvailablePolicy(state))
    /\ UNCHANGED <<heap, root, upd, agent>>

CallFastPolicy(state) ==
    /\ Tick
    /\ call' = PolicyCall("fast_policy", state, 3, DefaultRatio, FastPolicy(state))
    /\ UNCHANGED <<heap, root, upd, agent>>

CallIdlePolicy(state) ==
    /\ Tick
    /\ call' = PolicyCall("idle_policy", state, 0, DefaultRatio, IdlePolicy(state))
    /\ UNCHANGED <<heap, root, upd, agent>>

\* the preferred action is any action of the largest space, or one beyond it
NextPolicy ==
    \/ \E state \in PolicyStates, action_index \in 0 .. NumActions, ratio \in Ratios :
          CallPreferencePolicy(state, action_index, ratio)
    \/ \E state \in PolicyStates : CallRandomAvailablePolicy(state)
    \/ \E state \in PolicyStates : CallFastPolicy(state)
    \/ \E state \in PolicyStates : CallIdlePolicy(state)

SpecPolicy == InitNode /\ [][NextPolicy]_vars

(***************************************************************************)
(* JointEnv and RobustNode of rl_agents/agents/tree_search/robust.py.      *)
(***************************************************************************)
\* the environment of candidate model m before any step; actions is the
\* history of the actions it was stepped with
JointModel(m) == [t |-> 0, model |-> m, viewer |-> TRUE, actions |-> <<>>]

\* state.step(action) on the model es[sh]
ModelStep(es, sh, action) ==
    [es EXCEPT ![sh].t = @ + 1, ![sh].actions = Append(@, action)]

\* the number of steps all the environments have made so far
RECURSIVE StepsMade(_, _)
StepsMade(es, S) ==
    IF S = {} THEN 0
    ELSE LET h == CHOOSE x \in S : TRUE IN es[h].t + StepsMade(es, S \ {h})

\* what model js[i] returns to step(action), o being its answer; at tells
\* when the step was made
Transition(js, es, action, o, i) ==
    [state |-> js[i], action |-> action, observation |-> es[js[i]].t + 1,
     reward |-> o.reward, terminal |-> o.terminal, at |-> StepsMade(es, DOMAIN es)]

\* (a comprehension that steps the last model first)
RECURSIVE TransitionsBackwards(_, _, _, _, _)
TransitionsBackwards(js, es, action, outs, i) ==
    IF i > Len(js) THEN [envs |-> es, transitions |-> <<>>]
    ELSE LET rest == TransitionsBackwards(js, es, action, outs, i + 1)
         IN  [envs |-> ModelStep(rest.envs, js[i], action),
              transitions |-> <<Transition(js, rest.envs, action, outs[i], i)>>
                                  \o rest.transitions]

\* JointEnv.step: "[state.step(action) for state in self.joint_state]", from
\* the i-th model on
RECURSIVE Transitions(_, _, _, _, _)
Transitions(js, es, action, outs, i) ==
    IF i > Len(js) THEN [envs |-> es, transitions |-> <<>>]
    ELSE LET rest == Transitions(js, ModelStep(es, js[i], action), action, outs, i + 1)
         IN  [envs |-> rest.envs,
              transitions |-> <<Transition(js, es, action, outs[i], i)>>
                                  \o rest.transitions]

\* JointEnv.step: "observations, rewards, terminals, info = zip(*transitions)";
\* zip of no transition yields nothing to unpack
Unzip(r) ==
    IF Len(r.transitions) = 0
    THEN [envs |-> r.envs, error |-> "ValueError", transitions |-> r.transitions,
          observations |-> <<>>, rewards |-> <<>>, terminals |-> <<>>]
    ELSE [envs |-> r.envs, error |-> "", transitions |-> r.transitions,
          observations |-> [i \in 1 .. Len(r.transitions) |->
                               r.transitions[i].observation],
          rewards |-> [i \in 1 .. Len(r.transitions) |-> r.transitions[i].reward],
          terminals |-> [i \in 1 .. Len(r.transitions) |-> r.transitions[i].terminal]]

\* JointEnv.step(action)
JointStep(js, es, action, outs) == Unzip(Transitions(js, es, action, outs, 1))

\* np.min over the entries of a vector, from the i-th on
RECURSIVE NpMinFrom(_, _, _)
NpMinFrom(v, i, best) ==
    IF i > Len(v) THEN best
    ELSE NpMinFrom(v, i + 1, IF v[i] < best THEN v[i] ELSE best)

\* RobustNode.get_value(): np.min(self.value)
GetValue(value) == NpMinFrom(value, 2, value[1])

\* JointEnv(envs), for no model, one model, ..., MaxModels models
InitJoint ==
    /\ \E n \in 0 .. MaxModels :
          /\ envs = [h \in 1 .. n |-> JointModel(h)]
          /\ joint_state = [i \in 1 .. n |-> i]
    /\ heap = (1 :> Node(NoNode, One))
    /\ root = 1
    /\ upd = (1 :> NoUpdates)
    /\ call = [op |-> "init", node |-> 1, arg |-> 0, res |-> 0]
    /\ ops = 0
    /\ previous_action = None
    /\ iterations = 0
    /\ assume_vehicle_type = NoType
    /\ pc = "idle"
    /\ iter = 0
    /\ agents = <<>>

\* JointEnv.step(action); outs[i] is the answer of the i-th model
JointEnvStep(action) ==
    /\ ops < MaxJointSteps
    /\ ops' = ops + 1
    /\ \E outs \in [1 .. Len(joint_state) -> Outcomes] :
       \E r \in {JointStep(joint_state, envs, action, outs)} :
         /\ envs' = r.envs
         /\ call' = [op |-> "joint_step", node |-> root, arg |-> action,
                     res |-> [error |-> r.error, transitions |-> r.transitions,
                              observations |-> r.observations,
                              rewards |-> r.rewards, terminals |-> r.terminals]]
    /\ UNCHANGED <<heap, root, upd, previous_action, iterations, assume_vehicle_type,
                   pc, iter, agents, joint_state>>

\* RobustNode.get_value() on a node whose value is the vector of rewards
\* the joint step just returned; a query, which changes nothing
RobustNodeGetValue ==
    /\ call.op = "joint_step"
    /\ call.res.error = ""
    /\ call' = [op |-> "get_value", node |-> root, arg |-> call.res.rewards,
                res |-> GetValue(call.res.rewards)]
    /\ UNCHANGED <<heap, root, upd, ops, agent>>

NextJoint ==
    \/ \E action \in Actions : JointEnvStep(action)
    \/ RobustNodeGetValue

SpecJoint == InitJoint /\ [][NextJoint]_vars

(***************************************************************************)
(* Properties of Node                                                      *)
(***************************************************************************)
\* the number of parent links from n up to a node without parent
RECURSIVE Depth(_, _)
Depth(h, n) == IF h[n].parent = NoNode THEN 0 ELSE 1 + Depth(h, h[n].parent)

\* C1: after N calls of update on a node, count = N and value * count equals
\* the sum of the N rewards supplied (value is their exact mean).
C1_RunningMean ==
    \A n \in DOMAIN heap :
        /\ heap[n].count = upd[n].n
        /\ RMul(heap[n].value, Int2Rat(heap[n].count)) = Int2Rat(upd[n].s)

\* C1 witness: a node that received three updates whose mean is not an integer
C1_Witness ==
    /\ call.op = "update"
    /\ upd[call.node].n = 3
    /\ upd[call.node].s = 2
    /\ heap[call.node].value = <<2, 3>>

\* C2: update_branch(r) on a node at depth d applies one update(r) to the
\* node and to each of its d ancestors, and changes no other node.
C2_UpdateBranchFrame ==
    [][call'.op = "update_branch" =>
        LET n == call'.node
            r == Int2Rat(call'.arg)
            path == PathTo(heap, n)
        IN  /\ Cardinality(path) = Depth(heap, n) + 1
            /\ DOMAIN heap' = DOMAIN heap
            /\ root' = root
            /\ \A m \in path :
                 /\ heap'[m].count = heap[m].count + 1
                 /\ heap'[m] = Update(heap, m, r)[m]
                 /\ heap'[m].prior = heap[m].prior
                 /\ heap'[m].children = heap[m].children
                 /\ heap'[m].parent = heap[m].parent
            /\ \A m \in DOMAIN heap \ path : heap'[m] = heap[m]]_vars

\* C2 witness: update_branch was called on a node at depth 2 of a tree that
\* has a node off the path to the root
C2_Witness ==
    /\ call.op = "update_branch"
    /\ Depth(heap, call.node) = 2
    /\ DOMAIN heap \ PathTo(heap, call.node) # {}
    /\ \A m \in PathTo(heap, call.node) : heap[m].count >= 1

\* C3: select_action(0) on a node with children returns the action of a
\* child of maximal count, the first inserted one among those.
C3_SelectMaxCountFirst ==
    (call.op = "select_action" /\ call.arg = 0 /\ Len(heap[call.node].children) > 0) =>
        LET ch == heap[call.node].children IN
        \E i \in 1 .. Len(ch) :
            /\ call.res = ch[i][1]
            /\ \A j \in 1 .. Len(ch) : heap[ch[j][2]].count <= heap[ch[i][2]].count
            /\ \A j \in 1 .. (i - 1) : heap[ch[j][2]].count < heap[ch[i][2]].count

\* C3 witness: a tie at the maximum between two children, the first inserted
\* being the larger action
C3_Witness ==
    /\ call.op = "select_action" /\ call.arg = 0
    /\ Len(heap[call.node].children) = 2
    /\ LET ch == heap[call.node].children IN
         /\ ch[1][1] > ch[2][1]
         /\ heap[ch[1][2]].count = heap[ch[2][2]].count
         /\ call.res = ch[1][1]

\* C3 witness of the strict case: the child of maximal count is not the first
C3_WitnessStrict ==
    /\ call.op = "select_action" /\ call.arg = 0
    /\ Len(heap[call.node].children) = 2
    /\ LET ch == heap[call.node].children IN
         /\ heap[ch[1][2]].count < heap[ch[2][2]].count
         /\ call.res = ch[2][1]

\* C4: expand creates children only for the actions that have none, leaves
\* every existing node as it was, and a second expand with the same
\* distribution changes nothing.
C4_ExpandIdempotent ==
    [][call'.op = "expand" =>
        LET n == call'.node
            d == call'.arg
            old == heap[n].children
            new == heap'[n].children
            fresh == DOMAIN heap' \ DOMAIN heap
        IN  /\ \A m \in DOMAIN heap \ {n} : heap'[m] = heap[m]
            /\ heap'[n] = [heap[n] EXCEPT !.children = new]
            /\ Len(new) >= Len(old)
            /\ SubSeq(new, 1, Len(old)) = old
            /\ {new[i][1] : i \in (Len(old) + 1) .. Len(new)} =
                   {d.actions[i] : i \in 1 .. Len(d.actions)} \ Keys(heap, n)
            /\ Cardinality(fresh) = Len(new) - Len(old)
            /\ {new[i][2] : i \in (Len(old) + 1) .. Len(new)} = fresh
            /\ \A c \in fresh : heap'[c].parent = n /\ heap'[c].count = 0
            /\ Expand(heap', n, d) = heap']_vars

\* C4 witness: an expand on a node that already had a visited child for one
\* of the actions, and that added a child for another
C4_Witness ==
    /\ call.op = "expand"
    /\ call.res >= 1
    /\ Len(heap[call.node].children) > call.res
    /\ \E i \in 1 .. call.res :
         /\ heap[call.node].children[i][1] \in
                {call.arg.actions[j] : j \in 1 .. Len(call.arg.actions)}
         /\ heap[heap[call.node].children[i][2]].count > 0

\* C5: after convert_visits_to_prior_in_branch(1) on a node with k children,
\* every child's prior is 1/k.
C5_UniformPrior ==
    (call.op = "convert" /\ call.arg = One /\ Len(heap[call.node].children) > 0) =>
        \A c \in ChildIds(heap, call.node) :
            heap[c].prior = Rat(1, Len(heap[call.node].children))

\* value + temperature * prior / (count + 1) of the node c
Score(h, c, temperature) ==
    RAdd(h[c].value,
         RDiv(RMul(Int2Rat(temperature), h[c].prior), Int2Rat(h[c].count + 1)))

\* C18: select_action(temperature), temperature other than 0, on a node with
\* children returns the action of a child of maximal
\* value + temperature * prior / (count + 1), the first inserted one among
\* those; on a node without children it returns None for any temperature.
C18_SelectByScore ==
    call.op = "select_action" =>
        LET ch == heap[call.node].children
            t == call.arg
        IN  IF Len(ch) = 0 THEN call.res = None
            ELSE t # 0 =>
                 \E i \in 1 .. Len(ch) :
                    /\ call.res = ch[i][1]
                    /\ \A j \in 1 .. Len(ch) :
                          RLeq(Score(heap, ch[j][2], t), Score(heap, ch[i][2], t))
                    /\ \A j \in 1 .. (i - 1) :
                          RLess(Score(heap, ch[j][2], t), Score(heap, ch[i][2], t))

\* C18 witness: the exploration bonus made select_action prefer the second
\* child, unvisited, to the first, visited and of greater value
C18_Witness ==
    /\ call.op = "select_action"
    /\ call.arg = Temperature
    /\ Len(heap[call.node].children) = 2
    /\ call.res = heap[call.node].children[2][1]
    /\ heap[heap[call.node].children[1][2]].count > heap[heap[call.node].children[2][2]].count
    /\ RLess(heap[heap[call.node].children[2][2]].value,
             heap[heap[call.node].children[1][2]].value)

\* the node holding c in its children dict
Holder(h, c) == CHOOSE n \in DOMAIN h : c \in ChildIds(h, n)

\* C19: convert_visits_to_prior_in_branch(reg) on n sets the count of every
\* node of n's subtree to 0, keeps values and shape, and gives every node c
\* below n the prior reg * (count(c) + 1) / T + reg / k, T being the sum of
\* count + 1 over c and its siblings and k their number, counts as before
\* the call.
C19_ConvertFormula ==
    [][call'.op = "convert" =>
        LET n == call'.node
            reg == call'.arg
        IN  /\ DOMAIN heap' = DOMAIN heap
            /\ \A m \in Below(heap, n) :
                  /\ heap'[m].count = 0
                  /\ heap'[m].value = heap[m].value
                  /\ heap'[m].children = heap[m].children
                  /\ heap'[m].parent = heap[m].parent
            /\ \A c \in Below(heap, n) \ {n} :
                  heap'[c].prior =
                      RAdd(RDiv(RMul(reg, Int2Rat(heap[c].count + 1)),
                                Int2Rat(SumCounts(heap, Holder(heap, c), 1))),
                           RDiv(reg, Int2Rat(Len(heap[Holder(heap, c)].children))))]_vars

\* C20: every node's prior is in [0, 1] in every reachable state.
C20_PriorInUnitInterval ==
    \A n \in DOMAIN heap : RLeq(Zero, heap[n].prior) /\ RLeq(heap[n].prior, One)

\* C13: an expand with a malformed distribution (lists of different
\* lengths, a negative probability, probabilities not summing to 1) ends in
\* an error and leaves the tree as it was.
C13_MalformedRejected ==
    [][call'.op = "expand_malformed" =>
        /\ call'.res.error # ""
        /\ heap' = heap]_vars

(***************************************************************************)
(* Properties of MCTS                                                      *)
(***************************************************************************)
\* C6: step_by_subtree(a) with a a key of root.children makes that child the
\* root, its parent link cleared and its subtree unchanged, the siblings out
\* of reach; with any other a (None included) the tree is the one
\* step_by_reset() gives: a single root, no parent, no children, count 0,
\* value 0.
C6_StepBySubtree ==
    [][call'.op = "step_by_subtree" =>
        LET a == call'.arg
            c == Child(heap, root, a)
        IN  IF a \in Keys(heap, root)
            THEN /\ root' = c
                 /\ heap'[c] = [heap[c] EXCEPT !.parent = NoNode]
                 /\ DOMAIN heap' = Below(heap, c)
                 /\ \A m \in Below(heap, c) \ {c} : heap'[m] = heap[m]
                 /\ \A s \in ChildIds(heap, root) \ {c} :
                        Below(heap, s) \cap Below(heap', root') = {}
                 /\ root \notin Below(heap', root')
            ELSE /\ heap' = StepByReset(heap, root).heap
                 /\ root' = StepByReset(heap, root).root
                 /\ DOMAIN heap' = {root'}
                 /\ heap'[root'].parent = NoNode
                 /\ heap'[root'].children = <<>>
                 /\ heap'[root'].count = 0
                 /\ heap'[root'].value = Zero]_vars

\* C6 witness: step_by_subtree promoted a visited child that has children of
\* its own, out of a tree that had more nodes than the child's subtree
C6_Witness ==
    /\ call.op = "step_by_subtree"
    /\ call.res.explored
    /\ heap[root].count >= 1
    /\ Len(heap[root].children) > 0
    /\ call.res.size > Cardinality(DOMAIN heap) + 1

\* C7: at every point between two iterations of plan, the first of them
\* included, get_plan gives a non-empty sequence of actions whose first is a
\* child of the root, and MCTSAgent.plan never fails on actions[0].
C7_AnytimePlan ==
    /\ pc = "planning" =>
          /\ Len(GetPlan(heap, root)) > 0
          /\ GetPlan(heap, root)[1] \in Keys(heap, root)
    /\ call.op # "IndexError"

\* C8: an iteration of MCTS.plan leaves the environment it was given as it
\* was, creates its own copy, starts from the state of the given
\* environment, and takes every step in that copy; no copy outlives it.
C8_SnapshotIsolation ==
    [][call'.op = "run" =>
        LET src == call'.arg.src
            tr == call'.res.trace
        IN  /\ envs' = envs
            /\ call'.arg.copy \notin DOMAIN envs
            /\ call'.arg.start.t = envs[src].t
            /\ call'.arg.start.model = envs[src].model
            /\ \A k \in 1 .. Len(tr) :
                   /\ tr[k].env = call'.arg.copy
                   /\ tr[k].t = envs[src].t + k - 1]_vars

\* C8 witness: the second iteration of a plan took a step, starting from
\* the state the first one started from
C8_Witness ==
    /\ call.op = "run"
    /\ iter = 2
    /\ Len(call.res.trace) >= 1
    /\ call.res.trace[1].phase = "selection"
    /\ call.arg.start.t = envs[call.arg.src].t

\* the steps of a trace taken in the given phase, and the sum of the rewards
\* of the first k steps
PhaseSteps(tr, phase) == {k \in 1 .. Len(tr) : tr[k].phase = phase}

RECURSIVE SumRewards(_, _)
SumRewards(tr, k) == IF k = 0 THEN 0 ELSE tr[k].reward + SumRewards(tr, k - 1)

\* C15: a run takes at most max_depth environment steps, selection and
\* rollout together, the selection ones first, and none after a step that
\* returned terminal.
C15_StepBudget ==
    call.op = "run" =>
        /\ Len(call.res.trace) <= MaxDepth
        /\ Cardinality(PhaseSteps(call.res.trace, "selection"))
             + Cardinality(PhaseSteps(call.res.trace, "rollout")) = Len(call.res.trace)
        /\ \A k \in 1 .. Len(call.res.trace) : \A j \in 1 .. Len(call.res.trace) :
              /\ (call.res.trace[k].terminal /\ j # k) => j < k
              /\ (call.res.trace[k].phase = "rollout" /\ j > k) =>
                     call.res.trace[j].phase = "rollout"

\* C15 witness: a rollout that a terminal step ended before the budget did
C15_Witness ==
    /\ call.op = "run"
    /\ Len(call.res.trace) = 1
    /\ MaxDepth > 1
    /\ call.res.trace[1].phase = "rollout"
    /\ call.res.trace[1].terminal

\* C16: after any number of runs on a fresh tree no node lies more than
\* max_depth edges below the root, and get_plan gives at most max_depth
\* actions.
C16_DepthBound ==
    /\ \A n \in DOMAIN heap : Depth(heap, n) <= MaxDepth
    /\ Len(GetPlan(heap, root)) <= MaxDepth

\* C17: a run whose selection ended on a terminal step expands nothing,
\* rolls nothing out and backpropagates the sum of the selection rewards;
\* a run that reaches a childless node without terminating expands it with
\* the prior policy before backpropagating.
C17_TerminalHandling ==
    [][call'.op = "run" =>
        LET tr == call'.res.trace
            node == call'.node
            sel == PhaseSteps(tr, "selection")
            ended == \E k \in sel : tr[k].terminal
        IN  /\ ended =>
                /\ ~call'.res.expanded
                /\ PhaseSteps(tr, "rollout") = {}
                /\ call'.res.total_reward = SumRewards(tr, Len(tr))
                /\ heap' = UpdateBranch(heap, node, Int2Rat(SumRewards(tr, Len(tr))))
            /\ (~ended /\ Len(heap[node].children) = 0) =>
                /\ call'.res.expanded
                /\ KeySeq(heap', node) = PriorPolicy(envs[SelfEnv]).actions
                /\ \A c \in ChildIds(heap', node) :
                      /\ c \notin DOMAIN heap
                      /\ heap'[c].count = 0
                      /\ heap'[c].parent = node
                /\ heap'[node].count = heap[node].count + 1
            /\ call'.res.total_reward = SumRewards(tr, Len(tr))]_vars

\* C17 witness: a run whose first selection step was terminal, with depth
\* budget left, ending at a childless node
C17_Witness ==
    /\ call.op = "run"
    /\ Len(call.res.trace) = 1
    /\ MaxDepth > 1
    /\ call.res.trace[1].phase = "selection"
    /\ call.res.trace[1].terminal
    /\ call.res.trace[1].reward = 1
    /\ Len(heap[call.node].children) = 0
    /\ heap[call.node].value = One

\* the nodes reachable from the nodes of S through the children dicts
RECURSIVE Descendants(_, _)
Descendants(h, S) ==
    IF UNION {ChildIds(h, n) : n \in S} \subseteq S THEN S
    ELSE Descendants(h, S \cup UNION {ChildIds(h, n) : n \in S})

\* the entries <<n, i>> of the children dicts that hold the node c
EntriesOf(h, c) ==
    {e \in (DOMAIN h) \X (1 .. NumActions) :
        e[2] <= Len(h[e[1]].children) /\ h[e[1]].children[e[2]][2] = c}

\* C14: in every state reached by run, step_by_reset, step_by_subtree and
\* step_by_prior the root has no parent, every child's parent is the node
\* holding it, every node is reached from the root by exactly one action
\* path, and the keys of every children dict are actions of the prior
\* policy.
C14_WellFormed ==
    /\ root \in DOMAIN heap
    /\ heap[root].parent = NoNode
    /\ \A n \in DOMAIN heap : \A i \in 1 .. Len(heap[n].children) :
          /\ heap[n].children[i][2] \in DOMAIN heap
          /\ heap[heap[n].children[i][2]].parent = n
          /\ \A j \in 1 .. Len(heap[n].children) :
                i # j => heap[n].children[i][1] # heap[n].children[j][1]
    /\ EntriesOf(heap, root) = {}
    /\ \A c \in DOMAIN heap \ {root} : Cardinality(EntriesOf(heap, c)) = 1
    /\ Descendants(heap, {root}) = DOMAIN heap
    /\ \A n \in DOMAIN heap :
          Keys(heap, n) \subseteq
              {PriorPolicy(envs[SelfEnv]).actions[k] :
                  k \in 1 .. Len(PriorPolicy(envs[SelfEnv]).actions)}

\* C14 witness: step_by_prior promoted a child that has children, after
\* two runs grew the tree below it
C14_Witness ==
    /\ call.op = "step_by_prior"
    /\ Len(heap[root].children) > 0
    /\ heap[root].parent = NoNode
    /\ \A c \in ChildIds(heap, root) : heap[c].parent = root

(***************************************************************************)
(* Properties of MCTSAgent                                                 *)
(***************************************************************************)
\* C9: when assume_vehicle_type is set, every step simulated during plan is
\* taken in an environment that follows the assumed model.
C9_SubstitutedModelUsed ==
    (call.op = "run" /\ assume_vehicle_type # NoType) =>
        \A k \in 1 .. Len(call.res.trace) :
            call.res.trace[k].model = assume_vehicle_type

\* the tree is a single new root
FreshTree(h, rt) ==
    /\ DOMAIN h = {rt}
    /\ h[rt] = Node(NoNode, One)

\* the tree h2 rooted at r2 is the subtree of h under the action a of rt
Promoted(h, rt, a, h2, r2) ==
    /\ a \in Keys(h, rt)
    /\ r2 = Child(h, rt, a)
    /\ DOMAIN h2 = Below(h, r2)
    /\ h2[r2] = [h[r2] EXCEPT !.parent = NoNode]
    /\ \A m \in DOMAIN h2 \ {r2} : h2[m] = h[m]

\* C10 as stated: on every plan call the root becomes the previous root's
\* child under the previous action, statistics retained; with no previous
\* action the tree is a fresh single-node root.
C10_ReuseOnEveryCall ==
    [][call'.op = "plan" =>
        IF previous_action = None
        THEN FreshTree(heap', root')
        ELSE Promoted(heap, root, previous_action, heap', root')]_vars

\* C10 amended: before any simulation of a plan call, the root becomes the
\* child of the root under the previous action, statistics retained, when
\* the root has such a child, which it has when the previous call returned
\* and reset() was not called since; otherwise the tree is a fresh
\* single-node root.
C10_ReuseUnlessReset ==
    [][/\ call'.op = "plan" =>
            /\ call'.arg = previous_action
            /\ iter' = 0
            /\ IF previous_action \in Keys(heap, root)
               THEN Promoted(heap, root, previous_action, heap', root')
               ELSE FreshTree(heap', root')
            /\ (call.op = "return") => previous_action \in Keys(heap, root)
            /\ (call.op \in {"init", "reset", "IndexError"}) =>
                   previous_action \notin Keys(heap, root)
       /\ call'.op = "return" => previous_action' = GetPlan(heap, root)[1]
       /\ call'.op = "run" => call.op \in {"plan", "run"}]_vars

\* C10 witness: a plan call promoted a child that the previous call visited
C10_Witness ==
    /\ call.op = "plan"
    /\ call.arg # None
    /\ heap[root].count >= 1
    /\ heap[root].parent = NoNode

(***************************************************************************)
(* Properties of RobustMCTSAgent                                           *)
(***************************************************************************)
\* C11: RobustMCTSAgent.plan returns an action that is a root child in every
\* sub-agent's tree and whose least value over the sub-agents is the
\* greatest among such actions, the first in the action order among ties.
C11_EnsembleMaximin ==
    call.op = "robust_plan" =>
        /\ call.res.outcome = "return"
        /\ LET a == call.res.action
               n == Len(agents)
               cands == {k \in Actions : \A i \in 1 .. n : k \in Keys(heap, agents[i].root)}
               vals(k) == {heap[Child(heap, agents[i].root, k)].value : i \in 1 .. n}
               worst(k) == CHOOSE v \in vals(k) : \A w \in vals(k) : RLeq(v, w)
           IN  /\ a \in cands
               /\ n >= 1 => \A c \in cands : RLeq(worst(c), worst(a))
               /\ \A c \in cands : c < a => (n >= 1 /\ RLess(worst(c), worst(a)))

\* C12: after RobustMCTSAgent.plan every sub-agent is committed to the
\* action returned, which its next plan call advances its tree by, and no
\* two sub-agents' trees share a node.
C12_EnsembleCommit ==
    (call.op = "robust_plan" /\ Len(agents) >= 1) =>
        /\ call.res.outcome = "return"
        /\ \A i \in 1 .. Len(agents) :
              /\ agents[i].previous_action = call.res.action
              /\ call.res.action \in Keys(heap, agents[i].root)
        /\ \A i \in 1 .. Len(agents) : \A j \in 1 .. Len(agents) :
              i # j => Below(heap, agents[i].root) \cap Below(heap, agents[j].root) = {}

\* the sum of the visit counts of the children of n
ChildCounts(h, n) == SumCounts(h, n, 1) - Len(h[n].children)

\* the visits of n that no child of n accounts for
OwnCount(h, n) == h[n].count - ChildCounts(h, n)

\* C21: a run adds exactly 1 to the count of the root; it adds 1 to the
\* visits that the node it ended at does not owe to its children and leaves
\* those of every other node as they were; step_by_reset and step_by_subtree
\* leave them as they were in every node they keep; a new node has none.  So
\* the count of a node is the sum of its children's counts plus the number of
\* runs that ended at it, and is never less than that sum.
C21_CountConservation ==
    [][/\ call'.op = "run" => heap'[root].count = heap[root].count + 1
       /\ call'.op \in {"run", "step_by_reset", "step_by_subtree"} =>
            /\ \A n \in DOMAIN heap' \cap DOMAIN heap :
                  OwnCount(heap', n) = OwnCount(heap, n)
                      + (IF call'.op = "run" /\ n = call'.node THEN 1 ELSE 0)
            /\ \A n \in DOMAIN heap' \ DOMAIN heap :
                  heap'[n].count = 0 /\ OwnCount(heap', n) = 0
       /\ \A n \in DOMAIN heap' : heap'[n].count >= ChildCounts(heap', n)]_vars

\* C21 witness: three runs on a fresh tree: the root counts 3 visits, one of
\* its own (the run that expanded it) and one for each of two children
C21_Witness ==
    /\ call.op = "run"
    /\ heap[root].count = 3
    /\ OwnCount(heap, root) = 1
    /\ Cardinality({c \in ChildIds(heap, root) : heap[c].count = 1}) = 2

\* C21 witness: a promoted subtree whose root was visited keeps its counts
C21_WitnessPromoted ==
    /\ call.op = "step_by_subtree"
    /\ call.res.explored
    /\ heap[root].count = 1
    /\ OwnCount(heap, root) = 1

\* the nodes whose children dict a step changed
Reexpanded(h, h2) == {n \in DOMAIN h : h2[n].children # h[n].children}

\* C22: a run expands at most one node, the node it ended at, and only if
\* that node had no children; a node that has children keeps the same
\* children, under the same actions, through every later run.
C22_ExpandOnce ==
    [][call'.op = "run" =>
        /\ DOMAIN heap \subseteq DOMAIN heap'
        /\ Cardinality(Reexpanded(heap, heap')) <= 1
        /\ Reexpanded(heap, heap') \subseteq {call'.node}
        /\ call'.res.expanded => Len(heap[call'.node].children) = 0
        /\ \A n \in DOMAIN heap :
              Len(heap[n].children) > 0 =>
                  /\ heap'[n].children = heap[n].children
                  /\ Keys(heap', n) = Keys(heap, n)
        /\ \A c \in DOMAIN heap' \ DOMAIN heap :
              /\ c \in ChildIds(heap', call'.node)
              /\ Len(heap'[c].children) = 0]_vars

\* C22 witness: a run ended, on a terminal step, at a node below the root
\* that an earlier run had expanded, and expanded nothing
C22_Witness ==
    /\ call.op = "run"
    /\ call.node # root
    /\ ~call.res.expanded
    /\ Len(heap[call.node].children) > 0

\* the sum of the first k entries of a list of rationals
RECURSIVE RSum(_, _)
RSum(ps, k) == IF k = 0 THEN Zero ELSE RAdd(ps[k], RSum(ps, k - 1))

\* C23: preference_policy(state, p, r) returns the available actions (the
\* whole action space if the state has no availability query), n of them; if
\* p is one of them, with probability r/(n-1+r) for p and 1/(n-1+r) for each
\* other, which sum to 1, p's being r times any other's; otherwise with
\* probability 1/n each.
C23_PreferencePolicy ==
    call.op = "preference_policy" =>
        LET state == call.arg.state
            p == call.arg.action_index
            r == call.arg.ratio
            av == IF state.query THEN state.available
                  ELSE [k \in 1 .. state.n |-> k - 1]
            n == Len(av)
            ps == call.res.probabilities
        IN  /\ call.res.actions = av
            /\ Len(ps) = n
            /\ IF \E i \in 1 .. n : av[i] = p
               THEN /\ \A i \in 1 .. n :
                         ps[i] = IF av[i] = p THEN Rat(r, n - 1 + r)
                                 ELSE Rat(1, n - 1 + r)
                    /\ RSum(ps, n) = One
                    /\ \A i, j \in 1 .. n :
                         (av[i] = p /\ av[j] # p) => ps[i] = RMul(Int2Rat(r), ps[j])
               ELSE \A i \in 1 .. n : ps[i] = Rat(1, n)

\* C23 witness: the preferred action is the second of two available ones
\* and gets 2/3 against 1/3
C23_Witness ==
    /\ call.op = "preference_policy"
    /\ call.arg.state.query
    /\ Len(call.res.actions) = 2
    /\ call.res.actions[2] = call.arg.action_index
    /\ call.arg.ratio = 2
    /\ call.res.probabilities = <<Rat(1, 3), Rat(2, 3)>>

\* C23 witness: the preferred action is not available, the state having an
\* availability query, and the distribution is uniform
C23_WitnessFallback ==
    /\ call.op = "preference_policy"
    /\ call.arg.state.query
    /\ call.arg.state.available = <<1>>
    /\ call.arg.action_index = 0
    /\ call.res.probabilities = <<One>>

\* what a joint step that returned did: every model of the list stepped once
\* with the action, the first model first, and the i-th entries of the
\* vectors returned are the i-th model's; all models have received the same
\* actions, one for each joint step made
Lockstep ==
    LET n == Len(joint_state)
        tr == call.res.transitions
    IN  /\ call.res.error = ""
        /\ Len(tr) = n
        /\ Len(call.res.rewards) = n
        /\ Len(call.res.terminals) = n
        /\ \A i \in 1 .. n :
              /\ tr[i].state = joint_state[i]
              /\ tr[i].action = call.arg
              /\ call.res.rewards[i] = tr[i].reward
              /\ call.res.terminals[i] = tr[i].terminal
              /\ envs[joint_state[i]].t = ops
              /\ Len(envs[joint_state[i]].actions) = ops
              /\ envs[joint_state[i]].actions[ops] = call.arg
              /\ envs[joint_state[i]].actions = envs[joint_state[1]].actions
        /\ \A i, j \in 1 .. n : i < j => tr[i].at < tr[j].at

\* get_value returned the least entry of the value vector
LeastEntry ==
    /\ \E i \in 1 .. Len(call.arg) : call.res = call.arg[i]
    /\ \A i \in 1 .. Len(call.arg) : call.res <= call.arg[i]

\* C24, as stated: JointEnv.step(a) steps every model of the list once with
\* a, in list order, and returns the vectors of the models' rewards and
\* terminal flags, so that all models have received the same actions in the
\* same order; get_value is the least entry of the node's value vector.
C24_JointLockstepAnyList ==
    /\ call.op = "joint_step" => Lockstep
    /\ call.op = "get_value" => LeastEntry

\* C24, amended: the same, for a JointEnv of at least one model.
C24_JointLockstep ==
    /\ (call.op = "joint_step" /\ Len(joint_state) >= 1) => Lockstep
    /\ call.op = "get_value" => LeastEntry

\* C24 witness: two models stepped twice, with two different actions; their
\* last rewards and terminal flags differ
C24_Witness ==
    /\ call.op = "joint_step"
    /\ Len(joint_state) = 2
    /\ ops = 2
    /\ envs[joint_state[1]].actions = envs[joint_state[2]].actions
    /\ envs[joint_state[1]].actions[1] # envs[joint_state[1]].actions[2]
    /\ call.res.rewards[1] # call.res.rewards[2]
    /\ call.res.terminals[1] # call.res.terminals[2]

\* C24 witness: get_value of a vector whose entries differ, the least one
\* not being the first
C24_WitnessGetValue ==
    /\ call.op = "get_value"
    /\ Len(call.arg) = 2
    /\ call.arg[2] < call.arg[1]
    /\ call.res = call.arg[2]
====
